---- MODULE Spec2Model ----
(***************************************************************************)
(* Git-backed advisory locks (package lock of ocuroot/gittools).           *)
(*                                                                         *)
(* Every session owns a working copy cloned from one shared remote.  A     *)
(* lock is one JSON file at a fixed path; AcquireLock, ReleaseLock and     *)
(* RefreshLock write, delete or rewrite that file, commit it and push it   *)
(* with pushWithRetry.  The model follows one lock path on one branch.     *)
(*                                                                         *)
(* The remote branch is the sequence of the lock path's contents, one      *)
(* entry per commit (the remote only ever fast-forwards).  A working copy  *)
(* is the record [base, pend, fetched, wt, idx, rebasing]: the local       *)
(* branch is the first `base` remote commits followed by the unpushed      *)
(* commits `pend`; `fetched` is refs/remotes/origin/<branch>; `wt` is the  *)
(* file on disk and `idx` its entry in the git index.                      *)
(***************************************************************************)
EXTENDS Integers, Sequences, FiniteSets, TLC

\* ---------------------------------------------------------------- bounds
Sessions == {"A", "B"}

\* highest value the clock g.now() reaches
MaxTime == 2

\* no call that pushes starts once the remote branch holds this many commits
MaxCommits == 3

\* number of git commands that fail for reasons outside the protocol
MaxFaults == 1

\* the expiryDuration of a lock that can expire within MaxTime
ShortTTL == 1

\* lock.go:204  const maxRetries = 2
maxRetries == 2

Times == 0..MaxTime
Descriptions == {"work"}

\* an expiryDuration that outlasts the clock of the model
LongTTL == MaxTime + 1

\* ---------------------------------------------------------- lock records
\* Contents of the lock file: absent, a JSON object (compact as written by
\* json.Marshal or indented as written by json.MarshalIndent), or bytes
\* that do not parse.
Absent ==
  [kind |-> "absent", indent |-> FALSE, owner |-> "", created_at |-> 0,
   expires_at |-> 0, description |-> ""]

Garbage ==
  [kind |-> "garbage", indent |-> FALSE, owner |-> "", created_at |-> 0,
   expires_at |-> 0, description |-> ""]

\* the *Lock value nil
NilLock ==
  [nil |-> TRUE, Owner |-> "", CreatedAt |-> 0, ExpiresAt |-> 0, Description |-> ""]

Lock(owner, created, expires, description) ==
  [nil |-> FALSE, Owner |-> owner, CreatedAt |-> created, ExpiresAt |-> expires,
   Description |-> description]

\* json.Marshal(lock): one line; an empty description is omitted and reads
\* back as the empty string
Marshal(lock) ==
  [kind |-> "json", indent |-> FALSE, owner |-> lock.Owner,
   created_at |-> lock.CreatedAt, expires_at |-> lock.ExpiresAt,
   description |-> lock.Description]

\* json.MarshalIndent(lock, "", "  "): the same object over several lines
MarshalIndent(lock) ==
  [kind |-> "json", indent |-> TRUE, owner |-> lock.Owner,
   created_at |-> lock.CreatedAt, expires_at |-> lock.ExpiresAt,
   description |-> lock.Description]

\* json.Unmarshal(data, &lock): accepts both layouts
Unmarshal(file) ==
  IF file.kind = "json"
  THEN [ok |-> TRUE,
        lock |-> Lock(file.owner, file.created_at, file.expires_at, file.description)]
  ELSE [ok |-> FALSE, lock |-> NilLock]

\* the session's LockKey (a ULID, unique per session)
LockKey(s) == s

\* ---------------------------------------------------------------- errors
\* An error value: `msg` is its text, outermost message first; `is` is the
\* set of sentinel errors that errors.Is finds along its %w chain.  An error
\* "is exactly" a sentinel when it equals the sentinel value.
NoErr == [msg |-> <<>>, is |-> {}]

Sentinel(name) == [msg |-> <<name>>, is |-> {name}]

ErrLockConflict == Sentinel("ErrLockConflict")

ErrPushFetchFirst == Sentinel("ErrPushFetchFirst")

ErrPushNonFastForward == Sentinel("ErrPushNonFastForward")

ErrPushPermissionDenied == Sentinel("ErrPushPermissionDenied")

ErrPushRejected == Sentinel("ErrPushRejected")

ErrPushRemoteRefMissing == Sentinel("ErrPushRemoteRefMissing")

ErrRebaseMergeConflict == Sentinel("ErrRebaseMergeConflict")

\* fmt.Errorf("<text>") and failures of the CLI, which carry no sentinel
Plain(text) == [msg |-> <<text>>, is |-> {}]

\* fmt.Errorf("<text>: %w", err): err stays on the chain
Wrap(text, err) == [msg |-> <<text>> \o err.msg, is |-> err.is]

\* fmt.Errorf("%w: %v", outer, err): only outer is on the chain, err is text
Mention(outer, err) == [msg |-> outer.msg \o err.msg, is |-> outer.is]

\* fmt.Errorf("%w: %s", sentinel, combinedOutput): how Repo.Push and
\* Repo.Rebase report a failure they have classified (repo.go:164-178, 276-284)
Classified(sentinel) == Mention(sentinel, Plain("git output"))

\* errors.Is(err, sentinel)
IsErr(err, sentinel) == sentinel \in err.is

\* ------------------------------------------------------- ReadLock, OwnsLock
\* Variants of ReadLock that the properties below must tell from the code:
\* one that never looks at expires_at, one that deletes the file of an
\* expired lock, one that treats a lock as expired from expires_at on.
ReadLock_NoExpiry(file, t) ==
  IF file.kind = "absent"
  THEN [lock |-> NilLock, err |-> NoErr, disk |-> file]
  ELSE IF ~Unmarshal(file).ok
  THEN [lock |-> NilLock, err |-> Plain("failed to parse lock file"), disk |-> file]
  ELSE [lock |-> Unmarshal(file).lock, err |-> NoErr, disk |-> file]

ReadLock_Prune(file, t) ==
  IF file.kind = "absent"
  THEN [lock |-> NilLock, err |-> NoErr, disk |-> file]
  ELSE IF ~Unmarshal(file).ok
  THEN [lock |-> NilLock, err |-> Plain("failed to parse lock file"), disk |-> file]
  ELSE IF t > Unmarshal(file).lock.ExpiresAt
  THEN [lock |-> NilLock, err |-> NoErr, disk |-> Absent]
  ELSE [lock |-> Unmarshal(file).lock, err |-> NoErr, disk |-> file]

ReadLock_Early(file, t) ==
  IF file.kind = "absent"
  THEN [lock |-> NilLock, err |-> NoErr, disk |-> file]
  ELSE IF ~Unmarshal(file).ok
  THEN [lock |-> NilLock, err |-> Plain("failed to parse lock file"), disk |-> file]
  ELSE IF t >= Unmarshal(file).lock.ExpiresAt
  THEN [lock |-> NilLock, err |-> NoErr, disk |-> file]
  ELSE [lock |-> Unmarshal(file).lock, err |-> NoErr, disk |-> file]

\* a ReadLock that keeps a lock alive for one clock value past expires_at
ReadLock_Grace(file, t) ==
  IF file.kind = "absent"
  THEN [lock |-> NilLock, err |-> NoErr, disk |-> file]
  ELSE IF ~Unmarshal(file).ok
  THEN [lock |-> NilLock, err |-> Plain("failed to parse lock file"), disk |-> file]
  ELSE IF t > Unmarshal(file).lock.ExpiresAt + 1
  THEN [lock |-> NilLock, err |-> NoErr, disk |-> file]
  ELSE [lock |-> Unmarshal(file).lock, err |-> NoErr, disk |-> file]

\* ReadLock(lockFilePath) at clock value t on a disk holding `file`:
\* the lock it returns, its error, and the file it leaves on disk.
ReadLock(file, t) ==
  IF file.kind = "absent"
  THEN [lock |-> NilLock, err |-> NoErr, disk |-> file]
  ELSE IF ~Unmarshal(file).ok
  THEN [lock |-> NilLock, err |-> Plain("failed to parse lock file"), disk |-> file]
  ELSE IF t > Unmarshal(file).lock.ExpiresAt
  THEN [lock |-> NilLock, err |-> NoErr, disk |-> file]
  ELSE [lock |-> Unmarshal(file).lock, err |-> NoErr, disk |-> file]

\* an ownership check that takes any lock on record for the caller's own
OwnsLock_Any(s, lock) == ~lock.nil

\* an ownership check that takes no record for a record of the caller
OwnsLock_NilIsMine(s, lock) == lock.nil \/ lock.Owner = LockKey(s)

\* lock.go:359-365
OwnsLock(s, lock) ==
  IF lock.nil THEN FALSE ELSE lock.Owner = LockKey(s)

\* -------------------------------------------------------------- git CLI
\* What the git commands that Repo wraps do to a working copy r, given the
\* remote branch (observed with git 2.39).

\* the lock path's contents in the commit the local branch points at
HeadTree(r, rem) ==
  IF r.pend = <<>> THEN rem[r.base] ELSE r.pend[Len(r.pend)]

Front(q) == SubSeq(q, 1, Len(q) - 1)

\* git fetch origin
Fetch(r, rem) == [r EXCEPT !.fetched = Len(rem)]

\* a pull that fetches and leaves the local branch where it is
Pull_Stale(r, rem) == [ok |-> TRUE, repo |-> Fetch(r, rem)]

\* git pull origin <branch>: fetch, then fast-forward.  It refuses when the
\* branches have diverged, and when the path changed upstream while the index
\* or a file present on disk carries a local change to it.
Pull(r, rem) ==
  LET n == Len(rem)
      H == HeadTree(r, rem)
      M == rem[n]
      f == Fetch(r, rem)
  IN  IF r.base = n THEN [ok |-> TRUE, repo |-> f]
      ELSE IF r.pend # <<>> THEN [ok |-> FALSE, repo |-> f]
      ELSE IF H = M THEN [ok |-> TRUE, repo |-> [f EXCEPT !.base = n]]
      ELSE IF r.idx = H /\ (r.wt = r.idx \/ r.wt = Absent)
      THEN [ok |-> TRUE, repo |-> [f EXCEPT !.base = n, !.idx = M, !.wt = M]]
      ELSE IF r.idx = M THEN [ok |-> TRUE, repo |-> [f EXCEPT !.base = n]]
      ELSE [ok |-> FALSE, repo |-> f]

\* Repo.Commit(message, [path]): git add <path>, then git commit -m.
\* git add fails on a path that is neither on disk nor in the index;
\* git commit fails when the index equals HEAD (nothing to commit).
\* fault = "add" or "commit" makes that command fail for an outside reason.
Commit(r, rem, fault) ==
  IF fault = "add" \/ (r.wt = Absent /\ r.idx = Absent)
  THEN [ok |-> FALSE, repo |-> r]
  ELSE LET staged == [r EXCEPT !.idx = r.wt]
       IN  IF fault = "commit" \/ staged.idx = HeadTree(r, rem)
           THEN [ok |-> FALSE, repo |-> staged]
           ELSE [ok |-> TRUE, repo |-> [staged EXCEPT !.pend = Append(r.pend, staged.idx)]]

\* a reset that leaves the branch and the files alone
ResetHard_Keep(r, rem) == [ok |-> TRUE, repo |-> r]

\* Repo.ResetHard("HEAD~1"): drop the last commit of the local branch and
\* reset index and working tree to its parent
ResetHard(r, rem) ==
  IF r.pend # <<>>
  THEN LET q == [r EXCEPT !.pend = Front(r.pend)]
       IN  [ok |-> TRUE, repo |-> [q EXCEPT !.idx = HeadTree(q, rem), !.wt = HeadTree(q, rem)]]
  ELSE IF r.base > 1
  THEN [ok |-> TRUE,
        repo |-> [r EXCEPT !.base = r.base - 1, !.idx = rem[r.base - 1], !.wt = rem[r.base - 1]]]
  ELSE [ok |-> FALSE, repo |-> r]

\* a remote that takes every push, fast-forward or not
PushCommand_Force(r, rem) ==
  [err |-> NoErr,
   remote |-> rem \o r.pend,
   repo |-> [r EXCEPT !.base = Len(rem) + Len(r.pend), !.pend = <<>>,
                      !.fetched = Len(rem) + Len(r.pend)]]

\* git push --porcelain origin <branch>: accepted only as a fast-forward of
\* the remote branch; a rejection reads "fetch first" when the remote tip is
\* not known locally and "non-fast-forward" when it is (repo.go:164-168).
PushCommand(r, rem) ==
  IF r.base = Len(rem)
  THEN [err |-> NoErr,
        remote |-> rem \o r.pend,
        repo |-> [r EXCEPT !.base = Len(rem) + Len(r.pend), !.pend = <<>>,
                           !.fetched = Len(rem) + Len(r.pend)]]
  ELSE [err |-> IF r.fetched = Len(rem) THEN Classified(ErrPushNonFastForward)
                ELSE Classified(ErrPushFetchFirst),
        remote |-> rem,
        repo |-> r]

\* Repo.RebaseAbort(): git rebase --abort exits 128 ("No rebase in
\* progress?") unless a rebase is in progress
RebaseAbort(r) ==
  IF r.rebasing THEN [ok |-> TRUE, repo |-> [r EXCEPT !.rebasing = FALSE]]
  ELSE [ok |-> FALSE, repo |-> r]

\* Repo.Rebase("refs/remotes/origin/<branch>") for the one-file commits of the
\* protocol: the local commit replays when upstream left the path as its
\* parent had it, is dropped when upstream already holds the same contents,
\* and conflicts otherwise (the rebase then stays in progress).
Rebase(r, rem) ==
  LET U == rem[r.fetched]
      P == HeadTree([r EXCEPT !.pend = Front(r.pend)], rem)
      M == HeadTree(r, rem)
  IN  IF r.pend = <<>> THEN [err |-> NoErr, repo |-> [r EXCEPT !.base = r.fetched]]
      ELSE IF r.fetched = r.base THEN [err |-> NoErr, repo |-> r]
      ELSE IF Len(r.pend) > 1 THEN [err |-> Plain("git rebase failed"), repo |-> r]
      ELSE IF U = P
      THEN [err |-> NoErr, repo |-> [r EXCEPT !.base = r.fetched, !.idx = M, !.wt = M]]
      ELSE IF U = M
      THEN [err |-> NoErr, repo |-> [r EXCEPT !.base = r.fetched, !.pend = <<>>, !.idx = M, !.wt = M]]
      ELSE [err |-> Classified(ErrRebaseMergeConflict),
            repo |-> [r EXCEPT !.rebasing = TRUE]]

\* ------------------------------------------------------------------ state
VARIABLES
  remote,   \* the lock path's contents in each commit of the remote branch
  repo,     \* repo[s]: the working copy of session s
  now,      \* the wall clock that g.now() reads
  pc,       \* pc[s]: where session s stands in the running call
  frame,    \* frame[s]: locals of the running call
  res,      \* res[s]: what the call that just returned has returned
  held,     \* held[s]: s is between a successful AcquireLock and its ReleaseLock
  faults,   \* git commands that may still fail for outside reasons
  tipBy,    \* the session and call whose push made the remote tip
  obs,      \* obs[s]: what the running call of s found and went through:
            \*   attempts  calls of Repo.Push made by pushWithRetry
            \*   rounds    times pushWithRetry went into its fetch-and-rebase branch
            \*   lastPush  what the last call of Repo.Push returned
            \*   rebases   calls of Repo.Rebase made by pushWithRetry
            \*   pushErr   what pushWithRetry returned
            \*   undo      the step of the rollback that failed, if one did
            \*   refetch   retry rounds whose fetch failed
            \*   orig      the lock file as the call found it when it went on to change it
  cap,      \* no call that pushes starts once the remote holds cap commits
  spare,    \* rollbacks in which a step may still fail
  push,     \* a git push that exited non-zero: its output and what Repo.Push returned
  flaky     \* fetches of a retry round that may still fail

vars == <<remote, repo, now, pc, frame, res, held, faults, tipBy, obs, cap, spare, push, flaky>>

\* a fresh clone of a remote whose only commit holds `file` at the lock path
Clone(file) ==
  [base |-> 1, pend |-> <<>>, fetched |-> 1, wt |-> file, idx |-> file,
   rebasing |-> FALSE]

NoFrame == [op |-> "none", retry |-> 0, orig |-> Absent]

NoRes == [op |-> "none", err |-> NoErr, lock |-> NilLock, owns |-> FALSE]

\* the commit a local branch points at: the pushed commits below it and the
\* unpushed ones on top
BranchTip(r) == <<r.base, r.pend>>

NoObs ==
  [preWt |-> Absent, preHead |-> BranchTip(Clone(Absent)), syncWt |-> Absent,
   syncHead |-> BranchTip(Clone(Absent)), synced |-> FALSE, at |-> 0,
   lenAt |-> 0, tipAt |-> <<"", "init">>, arg |-> 0, wrote |-> FALSE,
   committed |-> FALSE, pushed |-> FALSE, faulted |-> FALSE,
   attempts |-> 0, rounds |-> 0, lastPush |-> NoErr, pushErr |-> NoErr,
   orig |-> Absent, rebases |-> 0, undo |-> "none", refetch |-> 0]

\* every session has cloned a remote whose first commit holds `file`
Setup(file, t, commits, failures, rollbacks) ==
  /\ cap = commits
  /\ spare = rollbacks
  /\ faults = failures
  /\ remote = <<file>>
  /\ repo = [s \in Sessions |-> Clone(file)]
  /\ now = t
  /\ pc = [s \in Sessions |-> "idle"]
  /\ frame = [s \in Sessions |-> NoFrame]
  /\ res = [s \in Sessions |-> NoRes]
  /\ held = [s \in Sessions |-> FALSE]
  /\ tipBy = <<"", "init">>
  /\ obs = [s \in Sessions |-> NoObs]

\* no output of git push is under study
NoPush == [stdout |-> <<>>, stderr |-> <<>>, err |-> NoErr, done |-> FALSE]

StartAll(file, t, commits, failures, rollbacks) ==
  /\ Setup(file, t, commits, failures, rollbacks)
  /\ push = NoPush
  /\ flaky = 0

\* the same, with every rollback going through
Start(file, t, commits, failures) == StartAll(file, t, commits, failures, 0)

Init == Start(Absent, 0, MaxCommits, MaxFaults)

\* the outside failures the next commands may suffer, "none" among them
Outside(kinds) == IF faults > 0 THEN kinds \cup {"none"} ELSE {"none"}

Spend(fault) == faults' = IF fault # "none" THEN faults - 1 ELSE faults

\* A call's result is taken by its caller before any session goes on: the
\* result is read, never acted on, so no behaviour of the working copies or
\* of the remote is lost.
Quiet == \A u \in Sessions : pc[u] # "returned"

\* the call of session s returns err
Return(s, op, err) ==
  /\ pc' = [pc EXCEPT ![s] = "returned"]
  /\ frame' = [frame EXCEPT ![s] = NoFrame]
  /\ res' = [res EXCEPT ![s] = [op |-> op, err |-> err, lock |-> NilLock, owns |-> FALSE]]
  /\ held' = [held EXCEPT ![s] =
                IF err # NoErr THEN held[s] ELSE
                IF op = "acquire" THEN TRUE ELSE
                IF op = "release" THEN FALSE ELSE held[s]]

\* the call of session s goes on at `next`
Goto(s, next, fr) ==
  /\ pc' = [pc EXCEPT ![s] = next]
  /\ frame' = [frame EXCEPT ![s] = fr]
  /\ res' = res
  /\ held' = held

\* the caller has the result; the session is ready for its next call
Resume(s) ==
  /\ pc[s] = "returned"
  /\ pc' = [pc EXCEPT ![s] = "idle"]
  /\ res' = [res EXCEPT ![s] = NoRes]
  /\ obs' = [obs EXCEPT ![s] = NoObs]
  /\ UNCHANGED <<remote, repo, now, frame, held, faults, tipBy, cap, spare, push, flaky>>

\* a call of session s starts: what it finds before its first command
Enter(s) ==
  [NoObs EXCEPT !.preWt = repo[s].wt, !.preHead = BranchTip(repo[s]),
                !.syncWt = repo[s].wt, !.syncHead = BranchTip(repo[s]),
                !.at = now, !.lenAt = Len(remote), !.tipAt = tipBy]

\* the call has brought the working copy up to date (ok) and left it as r
Synced(s, r, ok, fault) ==
  [Enter(s) EXCEPT !.syncWt = r.wt, !.syncHead = BranchTip(r), !.synced = ok,
                   !.faulted = (fault # "none")]

\* a call that may push starts only below the commit cap
MayStart(s) ==
  /\ Quiet
  /\ pc[s] = "idle"
  /\ Len(remote) < cap
  /\ cap' = cap
  /\ spare' = spare
  /\ push' = push
  /\ flaky' = flaky

\* ------------------------------------------------------------- the clock
Tick ==
  /\ Quiet
  /\ now < MaxTime
  /\ now' = now + 1
  /\ UNCHANGED <<remote, repo, pc, frame, res, held, faults, tipBy, obs, cap, spare, push, flaky>>

\* ----------------------------------------------------------------- ReadLock
\* a caller of session s reads the lock (lock.go:324-353)
CallReadLock(s) ==
  /\ Quiet
  /\ pc[s] = "idle"
  /\ LET rd == ReadLock(repo[s].wt, now)
     IN  /\ repo' = [repo EXCEPT ![s].wt = rd.disk]
         /\ res' = [res EXCEPT ![s] = [op |-> "read", err |-> rd.err, lock |-> rd.lock, owns |-> FALSE]]
         /\ obs' = [obs EXCEPT ![s] = Enter(s)]
         /\ pc' = [pc EXCEPT ![s] = "returned"]
  /\ UNCHANGED <<remote, now, frame, held, faults, tipBy, cap, spare, push, flaky>>

\* -------------------------------------------------------------- AcquireLock
\* an ownership check that lets everyone through
HeldByOther_Never(s, lock) == FALSE

\* lock.go:68-71: the lock is held by someone else
HeldByOther(s, lock) == ~lock.nil /\ ~OwnsLock(s, lock)

\* a conflict reported with a message around the sentinel
HeldError_Wrapped == Wrap("lock is held", ErrLockConflict)

\* lock.go:70: the error returned for a lock held by someone else
HeldError == ErrLockConflict

\* a record that expires the moment it is created
NewLock_NoTTL(s, t, ttl, description) == Lock(LockKey(s), t, t, description)

\* lock.go:79-85: the record AcquireLock writes at clock value t
NewLock(s, t, ttl, description) == Lock(LockKey(s), t, t + ttl, description)

\* a mapping that reports every failed push as a conflict
AcquirePushError_AllConflict(pushErr) == Mention(ErrLockConflict, pushErr)

\* lock.go:113-128: the error AcquireLock returns for a failed push
AcquirePushError(pushErr) ==
  IF IsErr(pushErr, "ErrPushNonFastForward") \/ IsErr(pushErr, "ErrPushRejected")
  THEN Mention(ErrLockConflict, pushErr)
  ELSE IF IsErr(pushErr, "ErrRebaseMergeConflict")
  THEN Mention(ErrLockConflict, pushErr)
  ELSE IF IsErr(pushErr, "ErrPushPermissionDenied")
  THEN Wrap("lock acquisition failed due to permission issues", pushErr)
  ELSE IF IsErr(pushErr, "ErrPushRemoteRefMissing")
  THEN Wrap("lock acquisition failed due to missing remote reference", pushErr)
  ELSE Mention(ErrLockConflict, pushErr)

\* a call that undoes a failed commit the way it undoes a failed push
CommitFailed_Reset(r, rem) == ResetHard([r EXCEPT !.wt = Absent], rem).repo

\* lock.go:99-102: what AcquireLock does to its working copy when the commit
\* fails: it removes the lock file
CommitFailed(r, rem) == [r EXCEPT !.wt = Absent]

\* a call that takes a failed pull for a lock somebody else holds
PullError_Conflict == ErrLockConflict

\* lock.go:51-54: what AcquireLock returns when its pull fails
PullError == Wrap("failed to pull latest changes", Plain("git pull failed"))

\* lock.go:44-103: current branch, pull, ReadLock, ownership check, then the
\* record is built, written and committed (all of it local to the session
\* but for the pull)
AcquireLock_Begin(s, ttl, description) ==
  /\ MayStart(s)
  /\ \E fault \in Outside({"pull", "add", "commit"}) :
       LET p == IF fault = "pull" THEN [ok |-> FALSE, repo |-> repo[s]]
                ELSE Pull(repo[s], remote)
           rd == ReadLock(p.repo.wt, now)
           r == IF p.ok THEN [p.repo EXCEPT !.wt = rd.disk] ELSE p.repo
           stops == ~p.ok \/ rd.err # NoErr \/ HeldByOther(s, rd.lock)
           lock == NewLock(s, now, ttl, description)
           c == Commit([r EXCEPT !.wt = Marshal(lock)], remote, fault)
       IN  /\ fault \in {"add", "commit"} => ~stops
           /\ Spend(fault)
           /\ obs' = [obs EXCEPT ![s] = [Synced(s, r, p.ok, fault) EXCEPT
                                           !.wrote = ~stops, !.committed = ~stops /\ c.ok,
                                           !.arg = ttl, !.orig = r.wt]]
           /\ IF ~p.ok
              THEN /\ repo' = [repo EXCEPT ![s] = r]
                   /\ Return(s, "acquire", PullError)
              ELSE IF rd.err # NoErr
              THEN /\ repo' = [repo EXCEPT ![s] = r]
                   /\ Return(s, "acquire", Wrap("failed to check lock status", rd.err))
              ELSE IF HeldByOther(s, rd.lock)
              THEN /\ repo' = [repo EXCEPT ![s] = r]
                   /\ Return(s, "acquire", HeldError)
              ELSE IF ~c.ok
              THEN /\ repo' = [repo EXCEPT ![s] = CommitFailed(c.repo, remote)]
                   /\ Return(s, "acquire", Wrap("failed to commit lock file", Plain("git commit failed")))
              ELSE /\ repo' = [repo EXCEPT ![s] = c.repo]
                   /\ Goto(s, "p_fetch", [NoFrame EXCEPT !.op = "acquire"])
  /\ UNCHANGED <<remote, now, tipBy>>

\* ------------------------------------------------------------ pushWithRetry
\* a retry condition that also takes a plain rejection for a lost race
Retryable_Rejected(err) ==
  \/ IsErr(err, "ErrPushNonFastForward") \/ IsErr(err, "ErrPushFetchFirst")
  \/ IsErr(err, "ErrPushRejected")

\* lock.go:216: the errors pushWithRetry retries after
Retryable(err) ==
  IsErr(err, "ErrPushNonFastForward") \/ IsErr(err, "ErrPushFetchFirst")

\* a loop that retries for as long as the push is rejected
MayRetry_Always(retry, err) == Retryable(err)

\* lock.go:207, 216: the loop goes into its fetch-and-rebase branch
MayRetry(retry, err) == retry < maxRetries /\ Retryable(err)

\* a caller that leaves its working copy as the failed push left it
Rollback_Skip(op, r, rem, orig) == r

\* a caller that puts the lock file back and leaves its commit on the branch
Rollback_FileOnly(op, r, rem, orig) ==
  IF op = "acquire" THEN [r EXCEPT !.wt = Absent]
  ELSE IF op = "release" THEN r
  ELSE [r EXCEPT !.wt = orig]

\* what the caller of pushWithRetry does to its working copy when the push
\* failed: lock.go:110-111 (acquire), 190 (release), 308-309 (refresh)
Rollback(op, r, rem, orig) ==
  IF op = "acquire" THEN ResetHard([r EXCEPT !.wt = Absent], rem).repo
  ELSE IF op = "release" THEN ResetHard(r, rem).repo
  ELSE ResetHard([r EXCEPT !.wt = orig], rem).repo

\* callers that all report a failed push the way AcquireLock does
PushError_Downgrade(op, pushErr) == AcquirePushError(pushErr)

\* the error the caller returns for a failed push:
\* lock.go:113-128 (acquire), 195 (release), 314 (refresh)
PushError(op, pushErr) ==
  IF op = "acquire" THEN AcquirePushError(pushErr)
  ELSE IF op = "release" THEN Wrap("failed to push lock release", pushErr)
  ELSE Wrap("failed to push lock refresh", pushErr)

\* the steps of a rollback that may fail for an outside reason: the file
\* operation (os.Remove at lock.go:110, os.WriteFile at 308) or the reset
\* (lock.go:111, 190, 309); their errors are dropped or printed
RollbackSteps(op) ==
  IF spare = 0 THEN {"none"}
  ELSE IF op = "release" THEN {"none", "reset"}
  ELSE {"none", "file", "reset"}

\* the working copy after a rollback whose reset failed: the file operation
\* is done, the commit is still on the branch
Unreset(op, r, orig) ==
  IF op = "acquire" THEN [r EXCEPT !.wt = Absent]
  ELSE IF op = "release" THEN r
  ELSE [r EXCEPT !.wt = orig]

\* a caller that returns the error of the failed rollback step
PushFailed_Masked(s, r, pushErr, step) ==
  /\ spare' = IF step # "none" THEN spare - 1 ELSE spare
  /\ repo' = [repo EXCEPT ![s] =
               IF step = "reset" THEN Unreset(frame[s].op, r, frame[s].orig)
               ELSE Rollback(frame[s].op, r, remote, frame[s].orig)]
  /\ Return(s, frame[s].op,
            IF step # "none" THEN Wrap("rollback failed", Plain("git reset failed"))
            ELSE PushError(frame[s].op, pushErr))

\* pushWithRetry returned pushErr to the call of session s, whose working
\* copy is r: the call rolls back and returns
PushFailed(s, r, pushErr, step) ==
  /\ spare' = IF step # "none" THEN spare - 1 ELSE spare
  /\ repo' = [repo EXCEPT ![s] =
               IF step = "reset" THEN Unreset(frame[s].op, r, frame[s].orig)
               ELSE Rollback(frame[s].op, r, remote, frame[s].orig)]
  /\ Return(s, frame[s].op, PushError(frame[s].op, pushErr))

\* a retry round that replays the local commit onto origin/<branch> and
\* settles every conflict in favour of the local commit
Reconcile_Ours(r, rem) ==
  [again |-> TRUE, err |-> NoErr,
   repo |-> [Fetch(r, rem) EXCEPT !.base = Len(rem)], ran |-> TRUE]

\* lock.go:217-244: after a rejected push pushWithRetry fetches, aborts a
\* rebase that may be in progress and rebases onto origin/<branch>.  `again`
\* tells whether the loop goes on to its next push, `ran` whether Rebase was
\* called.
Reconcile(r, rem) ==
  LET ab == RebaseAbort(Fetch(r, rem))
      rb == Rebase(ab.repo, rem)
  IN  IF ~ab.ok THEN [again |-> TRUE, err |-> NoErr, repo |-> ab.repo, ran |-> FALSE]
      ELSE IF rb.err = NoErr
      THEN [again |-> TRUE, err |-> NoErr, repo |-> rb.repo, ran |-> TRUE]
      ELSE [again |-> FALSE, err |-> rb.err, repo |-> RebaseAbort(rb.repo).repo,
            ran |-> TRUE]

\* a loop that gives up with the error of its fetch
Round_GiveUp(r, rem, fetched) ==
  IF ~fetched
  THEN [again |-> FALSE, err |-> Plain("git fetch failed"), repo |-> r, ran |-> FALSE]
  ELSE Reconcile(r, rem)

\* lock.go:217-244: one retry round of pushWithRetry; when its fetch fails
\* (lock.go:218-222) the loop goes on to the next push with nothing changed
Round(r, rem, fetched) ==
  IF ~fetched
  THEN [again |-> TRUE, err |-> NoErr, repo |-> r, ran |-> FALSE]
  ELSE Reconcile(r, rem)

\* a Repo.Push that reports a failed fetch the way it reports a push the
\* remote rejected for being behind
FetchFailed_FetchFirst == Classified(ErrPushFetchFirst)

\* repo.go:153-156: what Repo.Push returns when its fetch fails
FetchFailed == Wrap("git fetch failed", Plain("git fetch failed"))

\* repo.go:153-156: Repo.Push fetches first, and returns when the fetch
\* fails; lock.go:207-249: the retry loop then looks at the error
Push_Fetch(s) ==
  /\ Quiet
  /\ pc[s] = "p_fetch"
  /\ \E fault \in Outside({"fetch"}) :
       LET retry == fault = "fetch" /\ MayRetry(frame[s].retry, FetchFailed)
           rc == Round(repo[s], remote, TRUE)
           lost == fault = "fetch" /\ ~(retry /\ rc.again)
       IN  \E step \in (IF lost THEN RollbackSteps(frame[s].op) ELSE {"none"}) :
             /\ Spend(fault)
             /\ obs' = [obs EXCEPT ![s].faulted = @ \/ fault # "none",
                                   ![s].attempts = @ + 1,
                                   ![s].lastPush = IF fault = "fetch" THEN FetchFailed ELSE @,
                                   ![s].rounds = IF retry THEN @ + 1 ELSE @,
                                   ![s].rebases = IF retry /\ rc.ran THEN @ + 1 ELSE @,
                                   ![s].pushErr = IF fault # "fetch" THEN @
                                                  ELSE IF retry THEN rc.err ELSE FetchFailed,
                                   ![s].undo = step]
             /\ IF fault # "fetch"
                THEN /\ repo' = [repo EXCEPT ![s] = Fetch(repo[s], remote)]
                     /\ spare' = spare
                     /\ Goto(s, "p_push", frame[s])
                ELSE IF retry
                THEN IF rc.again
                     THEN /\ repo' = [repo EXCEPT ![s] = rc.repo]
                          /\ spare' = spare
                          /\ Goto(s, "p_fetch", [frame[s] EXCEPT !.retry = @ + 1])
                     ELSE PushFailed(s, rc.repo, rc.err, step)
                ELSE PushFailed(s, repo[s], FetchFailed, step)
  /\ UNCHANGED <<remote, now, tipBy, cap, push, flaky>>

\* the errors a push can fail with for reasons outside the protocol
\* (repo.go:170-181)
PushFaults ==
  {Classified(ErrPushPermissionDenied), Classified(ErrPushRejected),
   Classified(ErrPushRemoteRefMissing), Plain("git push failed")}

\* every error pushWithRetry can return: what Repo.Push returns (repo.go:153-181)
\* and what Repo.Rebase returns (repo.go:276-289)
EngineErrors ==
  PushFaults \cup
  {Classified(ErrPushFetchFirst), Classified(ErrPushNonFastForward),
   Classified(ErrRebaseMergeConflict), FetchFailed, Plain("git rebase failed")}

\* repo.go:157-185: the push command; lock.go:207-252: the retry loop
Push_Push(s) ==
  /\ Quiet
  /\ pc[s] = "p_push"
  /\ \E e \in (IF faults > 0 THEN PushFaults \cup {NoErr} ELSE {NoErr}) :
       LET p == IF e # NoErr
                THEN [err |-> e, remote |-> remote, repo |-> repo[s]]
                ELSE PushCommand(repo[s], remote)
           retry == MayRetry(frame[s].retry, p.err)
       IN  \E fault \in (IF retry /\ flaky > 0 THEN {"fetch", "none"} ELSE {"none"}) :
             LET rc == Round(p.repo, remote, fault = "none")
                 lost == p.err # NoErr /\ ~(retry /\ rc.again)
             IN  \E step \in (IF lost THEN RollbackSteps(frame[s].op) ELSE {"none"}) :
                   /\ faults' = IF e # NoErr THEN faults - 1 ELSE faults
                   /\ flaky' = IF fault # "none" THEN flaky - 1 ELSE flaky
                   /\ remote' = p.remote
                   /\ obs' = [obs EXCEPT ![s].faulted = @ \/ e # NoErr \/ fault # "none",
                                         ![s].pushed = @ \/ p.err = NoErr,
                                         ![s].lastPush = p.err,
                                         ![s].rounds = IF retry THEN @ + 1 ELSE @,
                                         ![s].rebases = IF retry /\ rc.ran THEN @ + 1 ELSE @,
                                         ![s].refetch = IF fault # "none" THEN @ + 1 ELSE @,
                                         ![s].pushErr = IF retry THEN rc.err ELSE p.err,
                                         ![s].undo = step]
                   /\ IF p.err = NoErr
                      THEN /\ repo' = [repo EXCEPT ![s] = p.repo]
                           /\ spare' = spare
                           /\ tipBy' = IF p.remote = remote THEN tipBy ELSE <<s, frame[s].op>>
                           /\ Return(s, frame[s].op, NoErr)
                      ELSE /\ tipBy' = tipBy
                           /\ IF retry
                              THEN IF rc.again
                                   THEN /\ repo' = [repo EXCEPT ![s] = rc.repo]
                                        /\ spare' = spare
                                        /\ Goto(s, "p_fetch", [frame[s] EXCEPT !.retry = @ + 1])
                                   ELSE PushFailed(s, rc.repo, rc.err, step)
                              ELSE PushFailed(s, p.repo, p.err, step)
  /\ UNCHANGED <<now, cap, push>>

\* -------------------------------------------------------------- ReleaseLock
\* lock.go:156-162: the caller is not the owner; the lock is read again and
\* its owner goes into the message.  Reading the owner of a nil *Lock is a
\* nil pointer dereference, which ends the process.
NotOwnedOnRelease(again) ==
  IF again.err # NoErr THEN Wrap("failed to check lock", again.err)
  ELSE IF again.lock.nil THEN Plain("panic: nil pointer dereference")
  ELSE Plain("cannot release lock that is not owned by this process")

Panicked(err) == err = Plain("panic: nil pointer dereference")

\* the call of session s ends the process
Crash(s, op, err) ==
  /\ pc' = [pc EXCEPT ![s] = "crashed"]
  /\ frame' = [frame EXCEPT ![s] = NoFrame]
  /\ res' = [res EXCEPT ![s] = [op |-> op, err |-> err, lock |-> NilLock, owns |-> FALSE]]
  /\ held' = held

\* lock.go:137-162: current branch, pull, ReadLock, ownership check
ReleaseLock_Begin(s) ==
  /\ MayStart(s)
  /\ \E fault \in Outside({"pull"}) :
       LET p == IF fault = "pull" THEN [ok |-> FALSE, repo |-> repo[s]]
                ELSE Pull(repo[s], remote)
           rd == ReadLock(p.repo.wt, now)
           r == IF p.ok THEN [p.repo EXCEPT !.wt = rd.disk] ELSE p.repo
           no == NotOwnedOnRelease(ReadLock(r.wt, now))
       IN  /\ Spend(fault)
           /\ repo' = [repo EXCEPT ![s] = r]
           /\ obs' = [obs EXCEPT ![s] = Synced(s, r, p.ok, fault)]
           /\ IF ~p.ok
              THEN Return(s, "release", Wrap("failed to pull latest changes", Plain("git pull failed")))
              ELSE IF rd.err # NoErr
              THEN Return(s, "release", Wrap("failed to check lock", rd.err))
              ELSE IF ~OwnsLock(s, rd.lock)
              THEN IF Panicked(no) THEN Crash(s, "release", no) ELSE Return(s, "release", no)
              ELSE Goto(s, "r_delete", [NoFrame EXCEPT !.op = "release"])
  /\ UNCHANGED <<remote, now, tipBy>>

\* a release that empties the lock file and leaves it in place
Removed_Emptied(r) == [r EXCEPT !.wt = Garbage]

\* lock.go:174-178: os.Remove(lockFileFull)
Removed(r) == [r EXCEPT !.wt = Absent]

\* lock.go:164-183: fetch, pull again, delete the file, commit the deletion
ReleaseLock_Delete(s) ==
  /\ Quiet
  /\ pc[s] = "r_delete"
  /\ \E fault \in Outside({"fetch", "pull", "add", "commit"}) :
       LET p == IF fault = "pull" THEN [ok |-> FALSE, repo |-> Fetch(repo[s], remote)]
                ELSE Pull(Fetch(repo[s], remote), remote)
           gone == Removed(p.repo)
           c == Commit(gone, remote, fault)
       IN  /\ fault \in {"add", "commit"} => (p.ok /\ p.repo.wt # Absent)
           /\ Spend(fault)
           /\ obs' = [obs EXCEPT ![s].faulted = @ \/ fault # "none",
                                 ![s].wrote = fault # "fetch" /\ p.ok /\ p.repo.wt # Absent,
                                 ![s].committed = fault # "fetch" /\ p.ok /\ p.repo.wt # Absent /\ c.ok,
                                 ![s].orig = IF fault = "fetch" THEN repo[s].wt ELSE p.repo.wt]
           /\ IF fault = "fetch"
              THEN /\ repo' = repo
                   /\ Return(s, "release", Wrap("failed to fetch latest changes", Plain("git fetch failed")))
              ELSE IF ~p.ok
              THEN /\ repo' = [repo EXCEPT ![s] = p.repo]
                   /\ Return(s, "release", Wrap("failed to pull latest changes", Plain("git pull failed")))
              ELSE IF p.repo.wt = Absent
              THEN /\ repo' = [repo EXCEPT ![s] = p.repo]
                   /\ Return(s, "release", Wrap("failed to remove lock file", Plain("no such file")))
              ELSE IF ~c.ok
              THEN /\ repo' = [repo EXCEPT ![s] = c.repo]
                   /\ Return(s, "release", Wrap("failed to commit lock release", Plain("git commit failed")))
              ELSE /\ repo' = [repo EXCEPT ![s] = c.repo]
                   /\ Goto(s, "p_fetch", frame[s])
  /\ UNCHANGED <<remote, now, tipBy, cap, spare, push, flaky>>

\* -------------------------------------------------------------- RefreshLock
\* a refresh that also restamps created_at
Refreshed_Renewed(lock, expirationTime) ==
  MarshalIndent([lock EXCEPT !.ExpiresAt = expirationTime, !.CreatedAt = expirationTime])

\* lock.go:286-292: the file RefreshLock writes for the lock it read
Refreshed(lock, expirationTime) ==
  MarshalIndent([lock EXCEPT !.ExpiresAt = expirationTime])

\* lock.go:258-301: ReadLock, ownership check, snapshot of the file, rewrite
\* with the new expiry, commit
RefreshLock_Begin(s, expirationTime) ==
  /\ MayStart(s)
  /\ \E fault \in Outside({"add", "commit"}) :
       LET rd == ReadLock(repo[s].wt, now)
           r == [repo[s] EXCEPT !.wt = rd.disk]
           w == [r EXCEPT !.wt = Refreshed(rd.lock, expirationTime)]
           c == Commit(w, remote, fault)
           owner == rd.err = NoErr /\ OwnsLock(s, rd.lock)
       IN  /\ fault # "none" => owner
           /\ Spend(fault)
           /\ obs' = [obs EXCEPT ![s] = [Synced(s, r, TRUE, fault) EXCEPT
                                           !.wrote = owner, !.committed = owner /\ c.ok,
                                           !.arg = expirationTime, !.orig = r.wt]]
           /\ IF rd.err # NoErr
              THEN /\ repo' = [repo EXCEPT ![s] = r]
                   /\ Return(s, "refresh", Wrap("failed to check lock ownership", rd.err))
              ELSE IF ~OwnsLock(s, rd.lock)
              THEN /\ repo' = [repo EXCEPT ![s] = r]
                   /\ Return(s, "refresh", Plain("cannot refresh lock that is not owned by this process"))
              ELSE IF ~c.ok
              THEN /\ repo' = [repo EXCEPT ![s] = c.repo]
                   /\ Return(s, "refresh", Wrap("failed to commit lock refresh", Plain("git commit failed")))
              ELSE /\ repo' = [repo EXCEPT ![s] = c.repo]
                   /\ Goto(s, "p_fetch", [NoFrame EXCEPT !.op = "refresh", !.orig = r.wt])
  /\ UNCHANGED <<remote, now, tipBy>>

\* ------------------------------------------------------------ specifications
\* every session calls any operation at any time
Next ==
  \/ Tick
  \/ \E s \in Sessions :
       \/ CallReadLock(s)
       \/ AcquireLock_Begin(s, ShortTTL, "work")
       \/ ReleaseLock_Begin(s)
       \/ ReleaseLock_Delete(s)
       \/ RefreshLock_Begin(s, LongTTL)
       \/ Push_Fetch(s)
       \/ Push_Push(s)
       \/ Resume(s)

Spec == Init /\ [][Next]_vars

\* The first round of TestLockConcurrentWork (lock_collision_test.go:227-246):
\* every session calls AcquireLock once, at the same time as the others, for
\* a lock that outlasts the test, and keeps the result
Race_Acquire(s) == AcquireLock_Begin(s, LongTTL, "work")

Finish(s) ==
  /\ pc[s] = "returned"
  /\ pc' = [pc EXCEPT ![s] = "finished"]
  /\ UNCHANGED <<remote, repo, now, frame, res, held, faults, tipBy, obs, cap, spare, push, flaky>>

InitRace == Start(Absent, 0, MaxCommits, MaxFaults)

NextRace ==
  \/ Tick
  \/ \E s \in Sessions :
       \/ Race_Acquire(s)
       \/ Push_Fetch(s)
       \/ Push_Push(s)
       \/ Finish(s)

SpecRace == InitRace /\ [][NextRace]_vars

\* TestLockConcurrentWork (lock_collision_test.go:179-294): every session
\* loops over acquire, work, release with a lock that outlasts the test; it
\* acquires again after a failure and releases only what it has acquired
Loop_Acquire(s) == ~held[s] /\ AcquireLock_Begin(s, LongTTL, "work")

Loop_Release(s) == held[s] /\ ReleaseLock_Begin(s)

InitLoop == Start(Absent, 0, MaxCommits + 1, MaxFaults)

NextLoop ==
  \/ Tick
  \/ \E s \in Sessions :
       \/ Loop_Acquire(s)
       \/ Loop_Release(s)
       \/ ReleaseLock_Delete(s)
       \/ Push_Fetch(s)
       \/ Push_Push(s)
       \/ Resume(s)

SpecLoop == InitLoop /\ [][NextLoop]_vars

\* ReadLock on any lock file at any clock value
Owners == Sessions \cup {""}

Records ==
  {Lock(o, c, e, d) : o \in Owners, c \in Times, e \in 0..LongTTL,
                      d \in Descriptions \cup {""}}

Files ==
  {Absent, Garbage} \cup {Marshal(l) : l \in Records}
                    \cup {MarshalIndent(l) : l \in Records}

InitRead == \E file \in Files, t \in Times : Start(file, t, MaxCommits, 0)

NextRead ==
  \/ Tick
  \/ \E s \in Sessions :
       \/ CallReadLock(s)
       \/ Resume(s)

SpecRead == InitRead /\ [][NextRead]_vars

\* sessions that acquire the lock and then refresh it again and again, to
\* expiration times before and after the clock
Expiries == {ShortTTL, LongTTL}

InitRefresh == Start(Absent, 0, MaxCommits + 1, 0)

NextRefresh ==
  \/ Tick
  \/ \E s \in Sessions :
       \/ AcquireLock_Begin(s, ShortTTL, "work")
       \/ \E e \in Expiries : RefreshLock_Begin(s, e)
       \/ Push_Fetch(s)
       \/ Push_Push(s)
       \/ Resume(s)

SpecRefresh == InitRefresh /\ [][NextRefresh]_vars

\* TestPushRetryWithRebase (repo1 commits and pushes a file of its own while
\* repo2 holds an unpushed commit): somebody outside the sessions pushes a
\* commit that touches other files and leaves the lock path as it was
OtherPush ==
  /\ Quiet
  /\ Len(remote) < cap
  /\ remote' = Append(remote, remote[Len(remote)])
  /\ tipBy' = <<"other", "work">>
  /\ UNCHANGED <<repo, now, pc, frame, res, held, faults, obs, cap, spare, push, flaky>>

\* sessions that acquire and release while commits to other files land
InitRetry == Start(Absent, 0, MaxCommits + 1, 0)

NextRetry ==
  \/ OtherPush
  \/ \E s \in Sessions :
       \/ AcquireLock_Begin(s, LongTTL, "work")
       \/ ReleaseLock_Begin(s)
       \/ ReleaseLock_Delete(s)
       \/ Push_Fetch(s)
       \/ Push_Push(s)
       \/ Resume(s)

SpecRetry == InitRetry /\ [][NextRetry]_vars


\* sessions whose pushes fail and whose rollback may fail as well: a step of
\* one rollback (the file operation or the reset) does not go through
InitRollback == StartAll(Absent, 0, MaxCommits, MaxFaults, 1)

NextRollback ==
  \E s \in Sessions :
    \/ AcquireLock_Begin(s, LongTTL, "work")
    \/ ReleaseLock_Begin(s)
    \/ ReleaseLock_Delete(s)
    \/ RefreshLock_Begin(s, LongTTL)
    \/ Push_Fetch(s)
    \/ Push_Push(s)
    \/ Resume(s)

SpecRollback == InitRollback /\ [][NextRollback]_vars

\* sessions that race for the lock while the fetch of one retry round may
\* fail
InitFlaky ==
  /\ Setup(Absent, 0, MaxCommits + 1, MaxFaults, 0)
  /\ push = NoPush
  /\ flaky = 1

NextFlaky ==
  \E s \in Sessions :
    \/ AcquireLock_Begin(s, LongTTL, "work")
    \/ ReleaseLock_Begin(s)
    \/ ReleaseLock_Delete(s)
    \/ RefreshLock_Begin(s, LongTTL)
    \/ Push_Fetch(s)
    \/ Push_Push(s)
    \/ Resume(s)

SpecFlaky == InitFlaky /\ [][NextFlaky]_vars

\* ------------------------------------------------------- Repo.Push, on failure
\* The output of git push is text; it is modelled as a sequence of fragments,
\* and a search string as the fragments it is made of.  The fragments are
\* those of the strings Repo.Push looks for, and one that differs from them
\* by case only.
Fragments ==
  {"fetch ", "first", "non-fast-forward", "permission ", "Permission ",
   "access ", "denied", "! ", "[rejected]", "[remote rejected]",
   "couldn't find ", "remote ref", " does not exist"}

MaxOut == 3

Texts(n) == UNION {[1..k -> Fragments] : k \in 0..n}

\* strings.Contains(text, phrase)
Contains(text, phrase) ==
  \E i \in 1..(Len(text) - Len(phrase) + 1) :
    SubSeq(text, i, i + Len(phrase) - 1) = phrase

\* a switch that looks for a rejection before it looks for its cause
PushResult_RejectedFirst(stdout, stderr) ==
  LET combinedOutput == stdout \o stderr
  IN  IF \/ Contains(combinedOutput, <<"! ", "[remote rejected]">>)
         \/ Contains(combinedOutput, <<"! ", "[rejected]">>)
      THEN Classified(ErrPushRejected)
      ELSE IF Contains(combinedOutput, <<"fetch ", "first">>)
      THEN Classified(ErrPushFetchFirst)
      ELSE IF Contains(combinedOutput, <<"non-fast-forward">>)
      THEN Classified(ErrPushNonFastForward)
      ELSE IF \/ Contains(combinedOutput, <<"permission ", "denied">>)
              \/ Contains(combinedOutput, <<"access ", "denied">>)
      THEN Classified(ErrPushPermissionDenied)
      ELSE IF \/ Contains(combinedOutput, <<"couldn't find ", "remote ref">>)
              \/ Contains(combinedOutput, <<"remote ref", " does not exist">>)
      THEN Classified(ErrPushRemoteRefMissing)
      ELSE Wrap("git push failed", Plain("exit status 1"))

\* repo.go:157-182: what Repo.Push returns when git push exits non-zero
PushResult(stdout, stderr) ==
  LET combinedOutput == stdout \o stderr
  IN  IF Contains(combinedOutput, <<"fetch ", "first">>)
      THEN Classified(ErrPushFetchFirst)
      ELSE IF Contains(combinedOutput, <<"non-fast-forward">>)
      THEN Classified(ErrPushNonFastForward)
      ELSE IF \/ Contains(combinedOutput, <<"permission ", "denied">>)
              \/ Contains(combinedOutput, <<"access ", "denied">>)
      THEN Classified(ErrPushPermissionDenied)
      ELSE IF \/ Contains(combinedOutput, <<"! ", "[remote rejected]">>)
              \/ Contains(combinedOutput, <<"! ", "[rejected]">>)
      THEN Classified(ErrPushRejected)
      ELSE IF \/ Contains(combinedOutput, <<"couldn't find ", "remote ref">>)
              \/ Contains(combinedOutput, <<"remote ref", " does not exist">>)
      THEN Classified(ErrPushRemoteRefMissing)
      ELSE Wrap("git push failed", Plain("exit status 1"))

\* git push has exited non-zero with the output under study
Push_Failed ==
  /\ ~push.done
  /\ push' = [push EXCEPT !.err = PushResult(push.stdout, push.stderr),
                          !.done = TRUE]
  /\ UNCHANGED <<remote, repo, now, pc, frame, res, held, faults, tipBy, obs, cap, spare, flaky>>

\* any output of a failed git push, split in any way over stdout and stderr
InitPush ==
  /\ Setup(Absent, 0, MaxCommits, 0, 0)
  /\ flaky = 0
  /\ \E stdout \in Texts(MaxOut) :
       \E stderr \in Texts(MaxOut - Len(stdout)) :
         push = [NoPush EXCEPT !.stdout = stdout, !.stderr = stderr]

NextPush == Push_Failed

SpecPush == InitPush /\ [][NextPush]_vars

\* ----------------------------------------------------------------- OwnsLock
\* lock.go:359-365: session s asks whether the record it passes is its own
CallOwnsLock(s, lock) ==
  /\ Quiet
  /\ pc[s] = "idle"
  /\ res' = [res EXCEPT ![s] = [op |-> "owns", err |-> NoErr, lock |-> lock,
                                owns |-> OwnsLock(s, lock)]]
  /\ obs' = [obs EXCEPT ![s] = Enter(s)]
  /\ pc' = [pc EXCEPT ![s] = "returned"]
  /\ UNCHANGED <<remote, repo, now, frame, held, faults, tipBy, cap, spare, push, flaky>>

\* OwnsLock on any record or none, over any lock file at any clock value
NextOwns ==
  \E s \in Sessions :
    \/ \E lock \in Records \cup {NilLock} : CallOwnsLock(s, lock)
    \/ Resume(s)

SpecOwns == InitRead /\ [][NextOwns]_vars
\* ------------------------------------------------------------- properties
\* the call `op` of session s has just returned
Returned(s, op) == pc[s] = "returned" /\ res[s].op = op

Failed(s, op) == Returned(s, op) /\ res[s].err # NoErr

\* nobody else pushed while the call of session s ran
Alone(s) == Len(remote) = obs[s].lenAt + (IF obs[s].pushed THEN 1 ELSE 0)

\* the lock file in the commit at the tip of the remote branch
RemoteTip == remote[Len(remote)]

\* C1: when the sessions call AcquireLock for the same lock at the same
\* time, with a TTL that does not elapse, at most one call returns success,
\* and every other call returns an error that errors.Is finds to be
\* ErrLockConflict (unless a git command of that call failed for a reason
\* outside the protocol).
C1_MutualExclusion ==
  /\ Cardinality({s \in Sessions : res[s].op = "acquire" /\ res[s].err = NoErr}) <= 1
  /\ \A s \in Sessions :
       (res[s].op = "acquire" /\ res[s].err # NoErr /\ ~obs[s].faulted)
         => IsErr(res[s].err, "ErrLockConflict")

\* both calls got past the ownership check; one pushed first and won, the
\* other lost at its push
C1_Witness ==
  \E s, u \in Sessions :
    /\ pc[s] = "finished" /\ pc[u] = "finished"
    /\ res[s].op = "acquire" /\ res[s].err = NoErr
    /\ res[u].op = "acquire" /\ IsErr(res[u].err, "ErrLockConflict")
    /\ obs[u].committed /\ ~obs[u].faulted

\* C2: while the sessions loop over acquire, work, release with a TTL that
\* never elapses, at most one session is between a successful AcquireLock and
\* its ReleaseLock, and the one record in force on the remote branch, the
\* record at its tip, is that session's.
C2_OneHolder ==
  /\ Cardinality({s \in Sessions : held[s]}) <= 1
  /\ \A s \in Sessions :
       held[s] => (RemoteTip.kind = "json" /\ RemoteTip.owner = LockKey(s))

\* a session holds the lock for the second time round while the other is
\* turned away
C2_Witness ==
  \E s, u \in Sessions :
    /\ held[s] /\ Len(remote) > 3
    /\ Returned(u, "acquire") /\ IsErr(res[u].err, "ErrLockConflict")

\* a call of AcquireLock, ReleaseLock or RefreshLock by s has just returned
Changed(s) == Returned(s, "acquire") \/ Returned(s, "release") \/ Returned(s, "refresh")

\* C3: AcquireLock, ReleaseLock and RefreshLock are all-or-nothing.  After a
\* call that returns success the tip of the remote branch and the lock file
\* of the working copy both hold the change.  After a call that returns an
\* error (no git command having failed for an outside reason) nothing was
\* pushed and the lock file of the working copy is what it was before the
\* call, or what the call's own pull made of it.
C3_AllOrNothing ==
  \A s \in Sessions :
    (Changed(s) /\ ~obs[s].faulted)
      => IF res[s].err = NoErr
         THEN obs[s].pushed /\ repo[s].wt = RemoteTip
         ELSE ~obs[s].pushed /\ repo[s].wt \in {obs[s].preWt, obs[s].syncWt}

\* the holder of a lock has asked for it again within the same clock
\* reading: the call fails and the lock file is gone from its working
\* directory though the branch still holds it
C3_Witness ==
  \E s \in Sessions :
    /\ Failed(s, "acquire") /\ ~obs[s].faulted /\ held[s]
    /\ repo[s].wt = Absent /\ HeadTree(repo[s], remote).kind = "json"

FoundForeign(s) ==
  /\ obs[s].synced
  /\ obs[s].syncWt.kind = "json"
  /\ obs[s].syncWt.owner # LockKey(s)
  /\ obs[s].at <= obs[s].syncWt.expires_at

\* C5: an AcquireLock that finds, after its pull, a non-expired record of
\* another owner returns exactly ErrLockConflict and has written, committed
\* and pushed nothing.
C5_ForeignLock ==
  \A s \in Sessions :
    (Returned(s, "acquire") /\ FoundForeign(s))
      => /\ res[s].err = ErrLockConflict
         /\ ~obs[s].wrote /\ ~obs[s].committed /\ ~obs[s].pushed
         /\ repo[s].wt = obs[s].syncWt
         /\ BranchTip(repo[s]) = obs[s].syncHead

C5_Witness ==
  \E s \in Sessions :
    Returned(s, "acquire") /\ FoundForeign(s) /\ res[s].err = ErrLockConflict

\* the call of s started on a remote tip that the ReleaseLock of another
\* session had pushed
AfterRelease(s) ==
  /\ obs[s].tipAt[2] = "release"
  /\ obs[s].tipAt[1] # s

\* C6: after session X has released the lock, the next AcquireLock of a
\* session Y other than X succeeds, and ReadLock in Y then returns a record
\* whose owner is Y (no git command of the call failing for an outside
\* reason, nobody else pushing meanwhile).
C6_ReleaseThenAcquire ==
  \A s \in Sessions :
    (Returned(s, "acquire") /\ AfterRelease(s) /\ ~obs[s].faulted /\ Alone(s))
      => /\ res[s].err = NoErr
         /\ ReadLock(repo[s].wt, now).err = NoErr
         /\ ~ReadLock(repo[s].wt, now).lock.nil
         /\ ReadLock(repo[s].wt, now).lock.Owner = LockKey(s)

C6_Witness ==
  \E s \in Sessions :
    /\ Returned(s, "acquire") /\ AfterRelease(s) /\ ~obs[s].faulted /\ Alone(s)
    /\ res[s].err = NoErr
    /\ RemoteTip.owner = LockKey(s)

\* the record that the call of s found after its pull had expired
FoundExpired(s) ==
  /\ obs[s].synced
  /\ obs[s].syncWt.kind = "json"
  /\ obs[s].at > obs[s].syncWt.expires_at

\* C7: a record whose expires_at is earlier than the caller's clock grants
\* nobody ownership: ReadLock reports no lock, and AcquireLock by any session
\* succeeds and pushes that session's record (no git command of the call
\* failing for an outside reason, nobody else pushing meanwhile).
C7_ExpiredIsFree ==
  \A s \in Sessions :
    (Returned(s, "acquire") /\ FoundExpired(s))
      => /\ ReadLock(obs[s].syncWt, obs[s].at).lock.nil
         /\ res[s].err # ErrLockConflict
         /\ (~obs[s].faulted /\ Alone(s))
              => /\ res[s].err = NoErr
                 /\ RemoteTip.kind = "json"
                 /\ RemoteTip.owner = LockKey(s)
                 /\ RemoteTip.created_at = obs[s].at

\* a session has taken over the expired lock of another
C7_Witness ==
  \E s \in Sessions :
    /\ Returned(s, "acquire") /\ FoundExpired(s)
    /\ obs[s].syncWt.owner # LockKey(s)
    /\ res[s].err = NoErr
    /\ RemoteTip.owner = LockKey(s)

\* C8: ReadLock never modifies or deletes the lock file, whatever the file
\* holds and whatever the clock reads: an expired or unparseable file is
\* still there, unchanged, after the call.
C8_ReadLockReadsOnly ==
  \A s \in Sessions :
    Returned(s, "read")
      => /\ repo[s].wt = obs[s].preWt
         /\ repo[s].idx = remote[repo[s].base]
         /\ BranchTip(repo[s]) = obs[s].preHead

\* ReadLock has reported no lock for an expired record, and the file is
\* still on disk
C8_Witness ==
  \E s \in Sessions :
    /\ Returned(s, "read")
    /\ obs[s].preWt.kind = "json" /\ obs[s].at > obs[s].preWt.expires_at
    /\ res[s].lock.nil /\ res[s].err = NoErr
    /\ repo[s].wt.kind = "json"

\* C9: ReadLock returns "no lock" when the file is absent; the record when
\* the file parses and the clock is at or before expires_at (the record is
\* still returned when the clock equals expires_at); "no lock" when the clock
\* is after expires_at; and a parse error when the file does not parse.
C9_ReadLockCases ==
  \A s \in Sessions :
    Returned(s, "read")
      => LET f == obs[s].preWt
             t == obs[s].at
             r == res[s]
         IN  /\ f.kind = "absent" => (r.lock.nil /\ r.err = NoErr)
             /\ (f.kind = "json" /\ t <= f.expires_at)
                  => /\ r.err = NoErr
                     /\ r.lock = Lock(f.owner, f.created_at, f.expires_at, f.description)
             /\ (f.kind = "json" /\ t > f.expires_at) => (r.lock.nil /\ r.err = NoErr)
             /\ f.kind = "garbage" => (r.lock.nil /\ r.err # NoErr)

\* the clock reads exactly expires_at and the record is returned
C9_Witness ==
  \E s \in Sessions :
    /\ Returned(s, "read")
    /\ obs[s].preWt.kind = "json" /\ obs[s].at = obs[s].preWt.expires_at
    /\ ~res[s].lock.nil /\ res[s].lock.ExpiresAt = now

\* C10: a successful RefreshLock changes only expires_at: owner, created_at
\* and description of the rewritten record equal those before the call, and
\* expires_at equals the requested absolute time; the remote branch holds
\* the rewritten record.
C10_RefreshKeepsRecord ==
  \A s \in Sessions :
    (Returned(s, "refresh") /\ res[s].err = NoErr)
      => LET old == obs[s].preWt
             new == repo[s].wt
         IN  /\ old.kind = "json" /\ new.kind = "json"
             /\ new.owner = old.owner
             /\ new.created_at = old.created_at
             /\ new.description = old.description
             /\ new.expires_at = obs[s].arg
             /\ obs[s].pushed

\* a second refresh in a row has moved expires_at and nothing else
C10_Witness ==
  \E s \in Sessions :
    /\ Returned(s, "refresh") /\ res[s].err = NoErr
    /\ obs[s].preWt.indent
    /\ obs[s].preWt.expires_at # obs[s].arg
    /\ repo[s].wt.expires_at = obs[s].arg
    /\ repo[s].wt.created_at = obs[s].preWt.created_at

\* the call `op` of session s has come to its end, by returning or by
\* taking the process down
Ended(s, op) == pc[s] \in {"returned", "crashed"} /\ res[s].op = op

\* the error text of lock.go:161 (the owner's key follows it)
NotOwnedText == <<"cannot release lock that is not owned by this process">>

\* C11: when a session calls ReleaseLock and finds, after its pull, a
\* non-expired record of another owner, the call returns the not-owned error;
\* the remote branch is as it was, and the session has deleted no file, made
\* no commit and pushed nothing: its working copy is what the pull left.
C11_ForeignRelease ==
  \A s \in Sessions :
    (Ended(s, "release") /\ FoundForeign(s))
      => /\ pc[s] = "returned"
         /\ res[s].err.msg = NotOwnedText
         /\ res[s].err.is = {}
         /\ ~obs[s].wrote /\ ~obs[s].committed /\ ~obs[s].pushed
         /\ obs[s].attempts = 0
         /\ Len(remote) = obs[s].lenAt
         /\ repo[s].wt = obs[s].syncWt
         /\ repo[s].pend = <<>>
         /\ BranchTip(repo[s]) = obs[s].syncHead

\* a session has tried to release the lock that another one holds
C11_Witness ==
  \E s, u \in Sessions :
    /\ s # u /\ held[u]
    /\ Returned(s, "release") /\ FoundForeign(s)
    /\ res[s].err.msg = NotOwnedText
    /\ RemoteTip.owner = LockKey(u)

\* the call of s found no current lock after its pull: no file, or a record
\* that had expired
FoundNone(s) ==
  /\ obs[s].synced
  /\ \/ obs[s].syncWt.kind = "absent"
     \/ obs[s].syncWt.kind = "json" /\ obs[s].at > obs[s].syncWt.expires_at

\* C12: a ReleaseLock that finds no current lock (no file, or an expired
\* record) returns the not-owned error to its caller and never ends the
\* process.
C12_NoLockNotOwned ==
  \A s \in Sessions :
    (Ended(s, "release") /\ FoundNone(s))
      => /\ pc[s] = "returned"
         /\ res[s].err.msg = NotOwnedText

\* ReleaseLock on a path without a lock file has ended the process
C12_Witness ==
  \E s \in Sessions :
    /\ pc[s] = "crashed" /\ res[s].op = "release"
    /\ FoundNone(s) /\ obs[s].syncWt.kind = "absent"
    /\ Panicked(res[s].err)

\* C13: after a ReleaseLock that returns success the lock file is absent in
\* the session's working copy and in the commit at the tip of the remote
\* branch, and ReadLock in that session reports no lock.
C13_Released ==
  \A s \in Sessions :
    (Returned(s, "release") /\ res[s].err = NoErr)
      => /\ repo[s].wt = Absent
         /\ obs[s].pushed
         /\ RemoteTip = Absent
         /\ ReadLock(repo[s].wt, now).lock.nil
         /\ ReadLock(repo[s].wt, now).err = NoErr

\* the owner has released its lock
C13_Witness ==
  \E s \in Sessions :
    /\ Returned(s, "release") /\ res[s].err = NoErr
    /\ obs[s].syncWt.kind = "json" /\ obs[s].syncWt.owner = LockKey(s)
    /\ RemoteTip = Absent /\ ~held[s]

\* the record a successful AcquireLock of s must have left
Acquired(s) == Lock(LockKey(s), obs[s].at, obs[s].at + obs[s].arg, "work")

\* C14: after a successful AcquireLock(path, ttl, description) by a session
\* whose clock read T0, the lock file holds owner = the session's LockKey,
\* created_at = T0, expires_at = T0 + ttl and the description; ReadLock in
\* that session returns that record at every clock value up to expires_at,
\* and OwnsLock of it is true.
C14_AcquiredRecord ==
  \A s \in Sessions :
    (Returned(s, "acquire") /\ res[s].err = NoErr)
      => /\ Unmarshal(repo[s].wt).ok
         /\ Unmarshal(repo[s].wt).lock = Acquired(s)
         /\ \A t \in obs[s].at .. Acquired(s).ExpiresAt :
              /\ ReadLock(repo[s].wt, t).err = NoErr
              /\ ReadLock(repo[s].wt, t).lock = Acquired(s)
              /\ OwnsLock(s, ReadLock(repo[s].wt, t).lock)
         /\ now <= Acquired(s).ExpiresAt => ReadLock(repo[s].wt, now).lock = Acquired(s)

\* a session has acquired the lock and reads its own record back
C14_Witness ==
  \E s \in Sessions :
    /\ Returned(s, "acquire") /\ res[s].err = NoErr
    /\ obs[s].arg > 0 /\ now <= obs[s].at + obs[s].arg
    /\ ReadLock(repo[s].wt, now).lock.Owner = LockKey(s)
    /\ ReadLock(repo[s].wt, now).lock.ExpiresAt = obs[s].at + obs[s].arg

\* the commits that landed on the remote branch while the call of s ran
Landed(s) ==
  (obs[s].lenAt + 1) .. (Len(remote) - (IF obs[s].pushed THEN 1 ELSE 0))

\* all of them touched other files: the lock path is as the call found it
OnlyOtherFiles(s) ==
  /\ Landed(s) # {}
  /\ \A i \in Landed(s) : remote[i] = remote[obs[s].lenAt]

\* C15: when the push of a call is rejected (fetch first or non-fast-forward)
\* because commits to other files landed, at most maxRetries of them,
\* pushWithRetry fetches, rebases, pushes again and the call returns success
\* with its commit on top of the others at the remote tip.
C15_RetrySucceeds ==
  \A s \in Sessions :
    (/\ Changed(s) /\ obs[s].committed /\ ~obs[s].faulted
     /\ obs[s].rounds >= 1
     /\ OnlyOtherFiles(s)
     /\ Cardinality(Landed(s)) <= maxRetries)
      => /\ res[s].err = NoErr
         /\ obs[s].pushed
         /\ Len(remote) = obs[s].lenAt + Cardinality(Landed(s)) + 1

\* one commit to another file has landed during an AcquireLock: the call has
\* pushed three times, never rebased, and reports a conflict
C15_Witness ==
  \E s \in Sessions :
    /\ Returned(s, "acquire") /\ obs[s].committed /\ ~obs[s].faulted
    /\ OnlyOtherFiles(s) /\ Cardinality(Landed(s)) = 1
    /\ obs[s].attempts = maxRetries + 1
    /\ repo[s].base = obs[s].lenAt
    /\ IsErr(obs[s].pushErr, "ErrPushNonFastForward")
    /\ IsErr(res[s].err, "ErrLockConflict")

\* while the call of s held its unpushed commit, another session pushed one
\* commit, and that commit changed the lock file
ConflictLanded(s) ==
  /\ obs[s].committed /\ ~obs[s].pushed /\ ~obs[s].faulted
  /\ obs[s].rounds >= 1
  /\ Len(remote) = repo[s].base + 1
  /\ RemoteTip # remote[repo[s].base]
  /\ tipBy[1] \in Sessions \ {s}

\* C16: when a commit that changes the same lock file has landed on the
\* remote, the rebase of pushWithRetry fails, the rebase is aborted, no
\* further push is attempted and pushWithRetry returns the merge conflict;
\* AcquireLock reports it as ErrLockConflict.
C16_ConflictStops ==
  \A s \in Sessions :
    (Changed(s) /\ ConflictLanded(s))
      => /\ IsErr(obs[s].pushErr, "ErrRebaseMergeConflict")
         /\ obs[s].attempts = 1
         /\ ~repo[s].rebasing
         /\ Returned(s, "acquire") => IsErr(res[s].err, "ErrLockConflict")

\* the other session's record has landed during an AcquireLock: the call
\* has pushed three times without rebasing and reports the rejected push as
\* the conflict
C16_Witness ==
  \E s \in Sessions :
    /\ Returned(s, "acquire") /\ ConflictLanded(s)
    /\ obs[s].attempts = maxRetries + 1
    /\ obs[s].rounds = maxRetries
    /\ IsErr(obs[s].pushErr, "ErrPushNonFastForward")
    /\ ~IsErr(obs[s].pushErr, "ErrRebaseMergeConflict")
    /\ IsErr(res[s].err, "ErrLockConflict")

\* session s is inside pushWithRetry
Pushing(s) == pc[s] \in {"p_fetch", "p_push"}

\* C17: pushWithRetry makes at most maxRetries + 1 calls of Repo.Push and
\* goes at most maxRetries times into its fetch-and-rebase branch, whatever
\* the remote answers; a retryable rejection of the last attempt is returned
\* as the error, so lasting contention ends in a failure and the loop never
\* goes round again.
C17_BoundedRetries ==
  \A s \in Sessions :
    /\ obs[s].attempts <= maxRetries + 1
    /\ obs[s].rounds <= maxRetries
    /\ Pushing(s) => /\ frame[s].retry <= maxRetries
                     /\ obs[s].rounds = frame[s].retry
                     /\ obs[s].attempts = frame[s].retry + (IF pc[s] = "p_push" THEN 1 ELSE 0)
    /\ (Changed(s) /\ obs[s].attempts = maxRetries + 1 /\ Retryable(obs[s].lastPush))
         => /\ obs[s].pushErr = obs[s].lastPush
            /\ res[s].err # NoErr
            /\ ~obs[s].pushed

\* the third push of a call has been rejected like the first two, and the
\* call has returned that rejection
C17_Witness ==
  \E s \in Sessions :
    /\ Changed(s) /\ ~obs[s].faulted
    /\ obs[s].attempts = maxRetries + 1 /\ obs[s].rounds = maxRetries
    /\ Retryable(obs[s].pushErr)
    /\ res[s].err # NoErr

\* C18: when Repo.Push fails with anything but fetch-first or
\* non-fast-forward (permission denied, rejected, remote ref missing, a
\* generic failure), pushWithRetry returns that very error after that
\* attempt: it does not fetch, rebase or push again.
C18_NoRetryOnOther ==
  \A s \in Sessions :
    (/\ obs[s].lastPush # NoErr
     /\ ~IsErr(obs[s].lastPush, "ErrPushFetchFirst")
     /\ ~IsErr(obs[s].lastPush, "ErrPushNonFastForward"))
      => /\ pc[s] = "returned"
         /\ obs[s].pushErr = obs[s].lastPush
         /\ obs[s].rounds = obs[s].attempts - 1
         /\ ~obs[s].pushed
         /\ res[s].err # NoErr

\* the first push of a call was refused for lack of permission and the call
\* has returned at once
C18_Witness ==
  \E s \in Sessions :
    /\ Changed(s)
    /\ obs[s].attempts = 1 /\ obs[s].rounds = 0
    /\ obs[s].lastPush = Classified(ErrPushPermissionDenied)
    /\ obs[s].pushErr = obs[s].lastPush

\* the error `got` is what AcquireLock is to return for the push error e
AcquireMapping(e, got) ==
  IF IsErr(e, "ErrPushPermissionDenied")
  THEN IsErr(got, "ErrPushPermissionDenied") /\ ~IsErr(got, "ErrLockConflict")
  ELSE IF IsErr(e, "ErrPushRemoteRefMissing")
  THEN IsErr(got, "ErrPushRemoteRefMissing") /\ ~IsErr(got, "ErrLockConflict")
  ELSE IsErr(got, "ErrLockConflict")

\* C19: when pushWithRetry fails inside AcquireLock, the call returns
\* ErrLockConflict for fetch-first, non-fast-forward, rejected, merge
\* conflict and generic failures, a permission error that is not
\* ErrLockConflict for permission denied, and a configuration error that is
\* not ErrLockConflict for a missing remote ref: for every error
\* pushWithRetry can return, and for every failed push of a call.
C19_AcquireErrors ==
  /\ \A e \in EngineErrors : AcquireMapping(e, AcquirePushError(e))
  /\ \A s \in Sessions :
       (Returned(s, "acquire") /\ obs[s].pushErr # NoErr)
         => /\ res[s].err # NoErr
            /\ AcquireMapping(obs[s].pushErr, res[s].err)

\* an AcquireLock whose push was refused for lack of permission has returned
\* an error that is not a lock conflict
C19_Witness ==
  \E s \in Sessions :
    /\ Returned(s, "acquire")
    /\ IsErr(obs[s].pushErr, "ErrPushPermissionDenied")
    /\ IsErr(res[s].err, "ErrPushPermissionDenied")
    /\ ~IsErr(res[s].err, "ErrLockConflict")

\* the error `got` carries the push error e on its chain, under `text`
Literal(text, e, got) ==
  /\ got.msg = <<text>> \o e.msg
  /\ got.is = e.is
  /\ ~IsErr(got, "ErrLockConflict")

\* C20: when pushWithRetry fails inside ReleaseLock or RefreshLock, the call
\* returns an error that wraps the push or rebase error: errors.Is finds the
\* kinds of the underlying error and never ErrLockConflict.
C20_LiteralErrors ==
  /\ \A e \in EngineErrors :
       /\ Literal("failed to push lock release", e, PushError("release", e))
       /\ Literal("failed to push lock refresh", e, PushError("refresh", e))
  /\ \A s \in Sessions :
       /\ (Returned(s, "release") /\ obs[s].pushErr # NoErr)
            => Literal("failed to push lock release", obs[s].pushErr, res[s].err)
       /\ (Returned(s, "refresh") /\ obs[s].pushErr # NoErr)
            => Literal("failed to push lock refresh", obs[s].pushErr, res[s].err)

\* a ReleaseLock or RefreshLock has lost its push to a non-fast-forward
\* rejection and says so
C20_Witness ==
  \E s \in Sessions :
    /\ Returned(s, "release") \/ Returned(s, "refresh")
    /\ IsErr(obs[s].pushErr, "ErrPushNonFastForward")
    /\ IsErr(res[s].err, "ErrPushNonFastForward")
    /\ ~IsErr(res[s].err, "ErrLockConflict")

\* pushWithRetry has failed in the call `op` of s, which has returned
PushLost(s, op) == Failed(s, op) /\ obs[s].pushErr # NoErr

C22_MatchesRemote ==
  \A s \in Sessions :
    (Changed(s) /\ ~obs[s].faulted /\ Alone(s) /\ obs[s].synced)
      => repo[s].wt = RemoteTip

\* an AcquireLock by the holder of the lock has failed at its commit: the
\* record is at the remote tip and gone from the working copy
C22_Witness ==
  \E s \in Sessions :
    /\ Failed(s, "acquire") /\ ~obs[s].faulted /\ Alone(s)
    /\ obs[s].wrote /\ ~obs[s].committed
    /\ RemoteTip.kind = "json" /\ RemoteTip.owner = LockKey(s)
    /\ repo[s].wt = Absent

\* C23: RebaseAbort is safe to call when no rebase is in progress: the
\* failure of the command is taken as a no-op and pushWithRetry goes on to
\* the rebase, so that every fetch-and-rebase round it enters calls Rebase.
C23_AbortIsNoOp ==
  \A s \in Sessions :
    obs[s].rebases = obs[s].rounds

\* a call has gone twice into the fetch-and-rebase branch, with no rebase in
\* progress, and has not rebased once
C23_Witness ==
  \E s \in Sessions :
    /\ Changed(s) /\ ~obs[s].faulted
    /\ obs[s].rounds = maxRetries /\ obs[s].rebases = 0
    /\ ~repo[s].rebasing
    /\ ~RebaseAbort(repo[s]).ok


\* C24: when a step of the rollback (removing or restoring the lock file,
\* the hard reset) fails after a failed push, the call still returns the
\* push failure, mapped as the operation maps it: AcquireLock by the table
\* of C19, ReleaseLock and RefreshLock by wrapping it under their own text.
\* The error of the rollback step is never what the caller gets.
C24_PushErrorKept ==
  \A s \in Sessions :
    /\ PushLost(s, "acquire") => AcquireMapping(obs[s].pushErr, res[s].err)
    /\ PushLost(s, "release")
         => Literal("failed to push lock release", obs[s].pushErr, res[s].err)
    /\ PushLost(s, "refresh")
         => Literal("failed to push lock refresh", obs[s].pushErr, res[s].err)

\* the reset of a release's rollback failed: the commit that deletes the
\* lock is still on the branch, and the call returned the push error
C24_Witness ==
  \E s \in Sessions :
    /\ PushLost(s, "release") /\ obs[s].undo = "reset"
    /\ repo[s].pend # <<>>
    /\ Literal("failed to push lock release", obs[s].pushErr, res[s].err)

\* C25: every call of AcquireLock, ReleaseLock and RefreshLock that gets to
\* read the lock record has pulled first: the branch it reads from holds
\* every commit the remote held when the call started.
C25_PullFirst ==
  \A s \in Sessions :
    obs[s].synced => obs[s].syncHead[1] = obs[s].lenAt

\* a RefreshLock that read the lock file of a branch that was behind the
\* remote, and returned with the branch still behind
C25_Witness ==
  \E s \in Sessions :
    /\ Returned(s, "refresh") /\ ~obs[s].faulted
    /\ obs[s].synced
    /\ obs[s].syncHead[1] < obs[s].lenAt
    /\ repo[s].base < Len(remote)

\* C26 (as the code has it): a call that starts on a branch with no
\* unpushed commit carries at most one unpushed commit at every point, and
\* none once it has returned, unless the hard reset of its rollback failed:
\* then the commit stays on the branch.
C26_OneUnpushed ==
  \A s \in Sessions :
    (pc[s] # "idle" /\ obs[s].preHead[2] = <<>>)
      => /\ Len(repo[s].pend) <= 1
         /\ (pc[s] = "returned" /\ obs[s].undo # "reset") => repo[s].pend = <<>>

\* a call whose push failed has returned with its commit taken off the
\* branch, though removing the lock file did not go through
C26_Witness ==
  \E s \in Sessions :
    /\ PushLost(s, "acquire") /\ obs[s].committed /\ obs[s].undo = "file"
    /\ repo[s].pend = <<>>

\* C26 as the specification words it: at most one unpushed commit during a
\* call and none after it, whatever happened to the rollback
C26_Original ==
  \A s \in Sessions :
    /\ Len(repo[s].pend) <= 1
    /\ pc[s] \in {"idle", "returned"} => repo[s].pend = <<>>

\* the kinds of push failure in the order the specification lists them, each
\* with the strings that stand for it
PushKinds ==
  << [kind |-> "ErrPushFetchFirst", any |-> {<<"fetch ", "first">>}],
     [kind |-> "ErrPushNonFastForward", any |-> {<<"non-fast-forward">>}],
     [kind |-> "ErrPushPermissionDenied",
      any |-> {<<"permission ", "denied">>, <<"access ", "denied">>}],
     [kind |-> "ErrPushRejected",
      any |-> {<<"! ", "[remote rejected]">>, <<"! ", "[rejected]">>}],
     [kind |-> "ErrPushRemoteRefMissing",
      any |-> {<<"couldn't find ", "remote ref">>, <<"remote ref", " does not exist">>}] >>

\* the places in that order whose strings the output of the push contains
Hits ==
  {i \in 1..Len(PushKinds) :
     \E p \in PushKinds[i].any : Contains(push.stdout \o push.stderr, p)}

\* C27: when git push fails, Repo.Push returns the error of the first kind,
\* in the order fetch first, non-fast-forward, permission denied, rejected,
\* remote ref missing, one of whose strings occurs in stdout followed by
\* stderr, and an error of no kind when none occurs: errors.Is finds exactly
\* one kind, or none.
C27_FirstMatch ==
  push.done
    => IF Hits = {} THEN push.err.is = {}
       ELSE \E i \in Hits :
              /\ \A j \in Hits : i <= j
              /\ push.err.is = {PushKinds[i].kind}

\* an output that holds both "! [rejected]" and "non-fast-forward" has been
\* classified as non-fast-forward
C27_Witness ==
  /\ push.done
  /\ Contains(push.stdout \o push.stderr, <<"! ", "[rejected]">>)
  /\ Contains(push.stdout \o push.stderr, <<"non-fast-forward">>)
  /\ push.err.is = {"ErrPushNonFastForward"}

\* C28: OwnsLock answers true exactly when it is given a record and the
\* record's owner is the caller's lock key; it returns no error, and the lock
\* file and the remote branch, which it does not read, are as they were.
C28_OwnsLock ==
  \A s \in Sessions :
    Returned(s, "owns")
      => /\ res[s].owns = (~res[s].lock.nil /\ res[s].lock.Owner = LockKey(s))
         /\ res[s].err = NoErr
         /\ repo[s].wt = obs[s].preWt
         /\ BranchTip(repo[s]) = obs[s].preHead
         /\ Len(remote) = obs[s].lenAt

\* the caller owns the record it passed while its lock file holds the
\* record of somebody else
C28_Witness ==
  \E s \in Sessions :
    /\ Returned(s, "owns") /\ res[s].owns
    /\ res[s].lock.Owner = LockKey(s)
    /\ repo[s].wt.kind = "json" /\ repo[s].wt.owner # LockKey(s)

\* C29: when ReleaseLock returns success, the record its commit removed from
\* the remote branch, the one in the commit below it, is a record owned by
\* the caller.
C29_ReleasedOwn ==
  \A s \in Sessions :
    (Returned(s, "release") /\ res[s].err = NoErr)
      => /\ RemoteTip = Absent
         /\ remote[Len(remote) - 1].kind = "json"
         /\ remote[Len(remote) - 1].owner = LockKey(s)

\* a ReleaseLock that no outside failure touched has returned success after
\* removing the record of the other session, which had taken the lock over
\* once it expired, and whose record has not expired
C29_Witness ==
  \E s \in Sessions :
    /\ Returned(s, "release") /\ res[s].err = NoErr /\ ~obs[s].faulted
    /\ RemoteTip = Absent
    /\ remote[Len(remote) - 1].kind = "json"
    /\ remote[Len(remote) - 1].owner # LockKey(s)
    /\ now <= remote[Len(remote) - 1].expires_at

\* C30: when RefreshLock returns success, the record its commit replaced at
\* the remote, the one in the commit below it, is a record owned by the
\* caller, and the record at the tip is the caller's.  A RefreshLock whose
\* branch was behind the remote when it pushed, because somebody else's
\* commit had reached the remote since the branch was last brought up to
\* date, returns an error and has pushed nothing.
C30_RefreshedOwn ==
  \A s \in Sessions :
    Returned(s, "refresh")
      => /\ res[s].err = NoErr
              => /\ obs[s].pushed
                 /\ RemoteTip.kind = "json" /\ RemoteTip.owner = LockKey(s)
                 /\ remote[Len(remote) - 1].kind = "json"
                 /\ remote[Len(remote) - 1].owner = LockKey(s)
         /\ (obs[s].committed /\ obs[s].preHead[1] < Len(remote) - (IF obs[s].pushed THEN 1 ELSE 0))
              => /\ res[s].err # NoErr
                 /\ ~obs[s].pushed

\* the caller committed its refresh while it held a live record; the other
\* session then took the expired lock over, the refresh failed at its push
\* and the other session's record is at the tip of the remote branch
C30_Witness ==
  \E s \in Sessions :
    /\ Failed(s, "refresh") /\ ~obs[s].faulted /\ obs[s].committed
    /\ obs[s].pushErr # NoErr /\ ~obs[s].pushed
    /\ RemoteTip.kind = "json" /\ RemoteTip.owner # LockKey(s)
    /\ tipBy[1] # s

\* C31: a retry round of pushWithRetry whose fetch fails, or whose abort of
\* a rebase fails, uses up one retry and leads to the next push with the
\* branch not rebased; when the call then fails, the error pushWithRetry
\* returned is that of its last push, never that of the fetch or the abort.
C31_SkippedRound ==
  \A s \in Sessions :
    (obs[s].rounds > 0 /\ obs[s].rebases = 0)
      => /\ obs[s].rounds <= maxRetries
         /\ pc[s] \in {"p_fetch", "p_push"}
              => /\ frame[s].retry = obs[s].rounds
                 /\ repo[s].base < Len(remote)
                 /\ repo[s].pend # <<>>
         /\ (Changed(s) /\ res[s].err # NoErr)
              => /\ obs[s].attempts = obs[s].rounds + 1
                 /\ obs[s].pushErr = obs[s].lastPush
                 /\ obs[s].pushErr # Plain("git fetch failed")
                 /\ obs[s].pushErr # Plain("git rebase abort failed")

\* a call has failed after a round whose fetch failed and a round whose
\* abort failed: what it got from pushWithRetry is the rejection of its
\* last push
C31_Witness ==
  \E s \in Sessions :
    /\ Changed(s) /\ res[s].err # NoErr
    /\ obs[s].refetch = 1 /\ obs[s].rounds = maxRetries /\ obs[s].rebases = 0
    /\ obs[s].pushErr = obs[s].lastPush
    /\ Retryable(obs[s].pushErr)

\* C32: Repo.Push fetches before every push command.  When that fetch
\* fails the push command is not run: nothing reaches the remote, the error
\* is of none of the kinds Repo.Push classifies, and pushWithRetry returns it
\* at once, with retries to spare or without.
C32_FetchBeforePush ==
  \A s \in Sessions :
    /\ pc[s] = "p_push" => obs[s].attempts = obs[s].rounds + 1
    /\ obs[s].lastPush = FetchFailed
         => /\ pc[s] \notin {"p_fetch", "p_push"}
            /\ ~obs[s].pushed
            /\ obs[s].attempts = obs[s].rounds + 1
            /\ obs[s].pushErr = FetchFailed
            /\ obs[s].pushErr.is = {}
            /\ Changed(s) => res[s].err = PushError(res[s].op, FetchFailed)

\* the first push of a call was rejected for being behind; the fetch of its
\* second Repo.Push failed and the call returned, one retry still unused
C32_Witness ==
  \E s \in Sessions :
    /\ Changed(s) /\ res[s].err # NoErr
    /\ obs[s].lastPush = FetchFailed
    /\ obs[s].rounds = 1 /\ obs[s].rounds < maxRetries
    /\ ~obs[s].pushed

\* C33: an AcquireLock whose pull fails returns the pull failure under
\* "failed to pull latest changes" and has written no lock file, made no
\* commit and run no push: lock file and branch are what they were.
C33_PullFailed ==
  \A s \in Sessions :
    (Returned(s, "acquire") /\ ~obs[s].synced)
      => /\ res[s].err = Wrap("failed to pull latest changes", Plain("git pull failed"))
         /\ ~IsErr(res[s].err, "ErrLockConflict")
         /\ ~obs[s].wrote /\ ~obs[s].committed /\ ~obs[s].pushed
         /\ obs[s].attempts = 0
         /\ repo[s].wt = obs[s].preWt
         /\ BranchTip(repo[s]) = obs[s].preHead
         /\ Len(remote) = obs[s].lenAt

\* git refused the pull of an AcquireLock, the remote holding a commit the
\* session did not have
C33_Witness ==
  \E s \in Sessions :
    /\ Returned(s, "acquire") /\ ~obs[s].synced /\ ~obs[s].faulted
    /\ res[s].err # NoErr
    /\ repo[s].base < Len(remote)

\* the record of its own, not expired, that the call of s found after its
\* pull
FoundOwn(s) ==
  /\ obs[s].synced
  /\ obs[s].syncWt.kind = "json"
  /\ obs[s].syncWt.owner = LockKey(s)
  /\ obs[s].at <= obs[s].syncWt.expires_at

\* C34: an AcquireLock by the session that owns the record at the path, the
\* record not expired, succeeds at every clock value (no git command failing
\* for an outside reason, nobody else pushing): the record at the tip of the
\* remote is the session's, with expires_at = now() + ttl.
C34_Reacquire ==
  \A s \in Sessions :
    (Returned(s, "acquire") /\ FoundOwn(s) /\ ~obs[s].faulted /\ Alone(s))
      => /\ res[s].err = NoErr
         /\ RemoteTip.kind = "json" /\ RemoteTip.owner = LockKey(s)
         /\ RemoteTip.expires_at = obs[s].at + obs[s].arg

\* the owner asked for its lock again at the clock value of the record: the
\* call was not turned away as a conflict, and failed at its commit
C34_Witness ==
  \E s \in Sessions :
    /\ Returned(s, "acquire") /\ FoundOwn(s) /\ ~obs[s].faulted /\ Alone(s)
    /\ obs[s].at = obs[s].syncWt.created_at
    /\ res[s].err = Wrap("failed to commit lock file", Plain("git commit failed"))
    /\ ~obs[s].pushed

\* C35: when the commit of AcquireLock fails, the call returns the commit
\* failure under "failed to commit lock file"; the lock file it wrote is
\* gone from the working copy, no push was run and no reset: the branch
\* points where the call's pull left it.
C35_CommitFailed ==
  \A s \in Sessions :
    (Returned(s, "acquire") /\ obs[s].wrote /\ ~obs[s].committed)
      => /\ res[s].err = Wrap("failed to commit lock file", Plain("git commit failed"))
         /\ repo[s].wt = Absent
         /\ obs[s].attempts = 0 /\ ~obs[s].pushed
         /\ Len(remote) = obs[s].lenAt
         /\ BranchTip(repo[s]) = obs[s].syncHead

\* git commit failed for an outside reason under a session that was taking
\* the lock: the record is staged in the index, not on the branch, and the
\* lock file is gone
C35_Witness ==
  \E s \in Sessions :
    /\ Returned(s, "acquire") /\ obs[s].wrote /\ ~obs[s].committed
    /\ obs[s].faulted
    /\ repo[s].wt = Absent
    /\ repo[s].idx.kind = "json" /\ repo[s].idx.owner = LockKey(s)
    /\ HeadTree(repo[s], remote) # repo[s].idx

\* the commit of the ReleaseLock or RefreshLock of s failed after the call
\* had removed or rewritten the lock file
CommitLost(s) ==
  /\ Returned(s, "release") \/ Returned(s, "refresh")
  /\ obs[s].wrote /\ ~obs[s].committed

\* C36: when the commit of ReleaseLock or RefreshLock fails, the lock file in
\* the working copy holds, at the return, what it held before the call
\* removed or rewrote it.
C36_CommitRollback ==
  \A s \in Sessions :
    CommitLost(s) => repo[s].wt = obs[s].orig

\* git commit failed under a ReleaseLock: the call has returned the commit
\* failure and the lock file it removed is still gone, the branch holding it
C36_Witness ==
  \E s \in Sessions :
    /\ CommitLost(s) /\ res[s].op = "release"
    /\ res[s].err = Wrap("failed to commit lock release", Plain("git commit failed"))
    /\ obs[s].orig.kind = "json"
    /\ repo[s].wt = Absent
    /\ HeadTree(repo[s], remote) = obs[s].orig

\* C37: when AcquireLock reports a failed push as a conflict, errors.Is
\* finds in the returned error both ErrLockConflict and every kind that it
\* finds in the error pushWithRetry returned.
C37_CauseWrapped ==
  \A s \in Sessions :
    (PushLost(s, "acquire") /\ IsErr(res[s].err, "ErrLockConflict"))
      => obs[s].pushErr.is \subseteq res[s].err.is

\* a session lost the race for the lock at its push: the error it got is
\* ErrLockConflict, names the rejection in its text, and is not an
\* ErrPushNonFastForward for errors.Is
C37_Witness ==
  \E s \in Sessions :
    /\ PushLost(s, "acquire") /\ ~obs[s].faulted
    /\ IsErr(obs[s].pushErr, "ErrPushNonFastForward")
    /\ IsErr(res[s].err, "ErrLockConflict")
    /\ ~IsErr(res[s].err, "ErrPushNonFastForward")
    /\ res[s].err.msg = ErrLockConflict.msg \o obs[s].pushErr.msg

\* the lock file the call of s started on holds a record of s that has
\* expired by the clock of the call
OwnExpired(s) ==
  /\ obs[s].preWt.kind = "json"
  /\ obs[s].preWt.owner = LockKey(s)
  /\ obs[s].at > obs[s].preWt.expires_at

\* C38: a RefreshLock on a record that names the caller as owner and has
\* expired returns the not-owned error and leaves the lock file, the local
\* branch and the remote as they were.
C38_NoRevival ==
  \A s \in Sessions :
    (Returned(s, "refresh") /\ OwnExpired(s))
      => /\ res[s].err = Plain("cannot refresh lock that is not owned by this process")
         /\ ~obs[s].wrote /\ ~obs[s].committed /\ ~obs[s].pushed
         /\ obs[s].attempts = 0
         /\ repo[s].wt = obs[s].preWt
         /\ BranchTip(repo[s]) = obs[s].preHead
         /\ Len(remote) = obs[s].lenAt

\* the caller's record, expired, is still the one at the tip of the remote
\* branch after its RefreshLock was turned away
C38_Witness ==
  \E s \in Sessions :
    /\ Returned(s, "refresh") /\ OwnExpired(s)
    /\ res[s].err # NoErr
    /\ RemoteTip = obs[s].preWt
    /\ repo[s].wt = RemoteTip
====
